---- MODULE Spec2Model ----
(***************************************************************************)
(* Geodata retrieval pipeline of geodata_tool: capability discovery        *)
(* (get_capabilities_layers), CRS negotiation (get_supported_crs),         *)
(* bounding-box reprojection (transform_bbox) and the retrieval            *)
(* orchestrator (fetch_geodata), driven by the caller in map.py.           *)
(*                                                                         *)
(* The remote services are the environment: every HTTP exchange picks its  *)
(* outcome (transport failure, status, body, page size) nondeterministically*)
(* from small sets.                                                        *)
(***************************************************************************)
EXTENDS Integers, Sequences, FiniteSets, TLC

\* ------------------------------------------------------------------ bounds
\* a finite WFS server delivers at most this many full pages for one layer
MaxPages == 2

\* ------------------------------------------------------- program constants
\* page size of a GetFeature request
count == 1000
\* CRS of the caller's bounding box
from_epsg == 4326
\* the one alternative working CRS
RD_EPSG == 28992

\* ------------------------------------------------------------- the inputs
\* map.py lines 22-23: the names of the configured datasets, in file order
DatasetNames == <<"bag", "brt">>
NumDatasets == Len(DatasetNames)
ServiceTypes == {"WFS", "WMS"}

\* layer names are character sequences (the file name is derived from them)
LayerA == <<"n", ":", "a">>
LayerB == <<"b">>
LayerC == <<"n", "_", "a">>

\* caller's extents, EPSG:4326, whole degrees
BBoxes == {<<4, 51, 5, 52>>}

\* text of a DefaultCRS / OtherCRS element: surrounding whitespace and body
Text(ws, s) == [none |-> FALSE, ws |-> ws, s |-> s]
\* an empty element: its text is None
NoText == [none |-> TRUE]
Urn(epsg) == IF epsg = 28992 THEN "urn:ogc:def:crs:EPSG::28992"
             ELSE "urn:ogc:def:crs:EPSG::4326"

\* capability documents a server may answer with: the Name elements found by
\* each of the four paths, and the CRS elements in document order
DocPlain == [form |-> "xml", layerPlain |-> <<LayerB>>, layerWms |-> <<LayerA>>,
             featPlain |-> <<LayerC>>, featWfs |-> <<LayerB>>,
             crs |-> <<Text(TRUE, Urn(28992)), Text(FALSE, Urn(4326))>>]
DocNs    == [form |-> "xml", layerPlain |-> <<>>, layerWms |-> <<LayerB>>,
             featPlain |-> <<>>, featWfs |-> <<LayerA, LayerB>>,
             crs |-> <<Text(FALSE, Urn(4326))>>]
DocBare  == [form |-> "xml", layerPlain |-> <<>>, layerWms |-> <<>>,
             featPlain |-> <<>>, featWfs |-> <<>>,
             crs |-> <<Text(FALSE, Urn(28992)), NoText>>]
Docs == {DocPlain, DocNs, DocBare}

\* bodies that are no capability document
NotXml == [form |-> "text"]
MalformedXml == [form |-> "malformed"]
Bodies == {NotXml, MalformedXml} \cup Docs

TransportFailures == {"Timeout", "ConnectionError"}
CapStatuses == {200, 203, 404}

\* every outcome of a GetCapabilities request
CapOutcomes ==
    [kind : TransportFailures]
    \cup [kind : {"http"}, status : CapStatuses, body : Bodies]

\* sizes of a short GetFeature page
ShortSizes == {0, 7}
\* a non-200 status of a GetFeature response
FeatureErrorStatuses == {500}
\* rows of a merged collection with null or invalid geometry
InvalidRows == {0, 1}

\* ------------------------------------------------------ the pure functions
Min(S) == CHOOSE x \in S : \A y \in S : x <= y
Max(S) == CHOOSE x \in S : \A y \in S : x >= y

\* pyproj.transform of one point: integer approximation of the RD New
\* (EPSG:28992) projection around its origin near (5E, 52N), metres; the
\* cross terms are the meridian convergence that skews a lon/lat rectangle
project(p, from, to) ==
    IF from = to THEN p
    ELSE <<155000 + 68000 * (p[1] - 5) - 1200 * (p[1] - 5) * (p[2] - 52),
           463000 + 111000 * (p[2] - 52) + 900 * (p[1] - 5) * (p[1] - 5)>>

transform_bbox(b, from, to) ==
    LET corners == {<<b[1], b[2]>>, <<b[1], b[4]>>, <<b[3], b[4]>>, <<b[3], b[2]>>}
        pts == {project(c, from, to) : c \in corners}
    IN <<Min({q[1] : q \in pts}), Min({q[2] : q \in pts}),
         Max({q[1] : q \in pts}), Max({q[2] : q \in pts})>>

\* response.raise_for_status(): HTTPError for a 4xx or 5xx status only
raise_for_status(status) == 400 <= status /\ status < 600

\* what a call returns: a value, or an exception that reaches the caller
Returned(v) == [raised |-> FALSE, value |-> v]

get_capabilities_layers(outcome, service_type) ==
    IF outcome.kind # "http" THEN Returned(<<>>)
    ELSE IF raise_for_status(outcome.status) THEN Returned(<<>>)
    ELSE IF outcome.body.form = "text" THEN Returned(<<>>)
    ELSE IF outcome.body.form = "malformed" THEN Returned(<<>>)
    ELSE IF service_type = "WMS" THEN
        Returned(IF outcome.body.layerPlain # <<>> THEN outcome.body.layerPlain
                 ELSE outcome.body.layerWms)
    ELSE IF service_type = "WFS" THEN
        Returned(IF outcome.body.featPlain # <<>> THEN outcome.body.featPlain
                 ELSE outcome.body.featWfs)
    ELSE Returned(<<>>)

\* str.strip() of an element's text
strip(text) == text.s

get_supported_crs(outcome) ==
    IF outcome.kind # "http" THEN Returned({})
    ELSE IF outcome.status # 200 THEN Returned({})
    ELSE IF outcome.body.form # "xml" THEN Returned({})
    ELSE IF \E i \in DOMAIN outcome.body.crs : outcome.body.crs[i].none
         THEN Returned({})
    ELSE Returned({strip(outcome.body.crs[i]) : i \in DOMAIN outcome.body.crs})

\* the policy looking for the short form of the code, which no set holds
select_to_epsg_ShortCode(supported) ==
    IF "EPSG:28992" \in supported THEN RD_EPSG ELSE 4326

\* line 158: the two-way selection policy
select_to_epsg(supported) ==
    IF Urn(RD_EPSG) \in supported THEN RD_EPSG ELSE 4326

\* line 216: layer.replace(':', '_') + "_4326.geojson"
filename_of(layer) ==
    [i \in DOMAIN layer |-> IF layer[i] = ":" THEN "_" ELSE layer[i]]
        \o <<"_4326.geojson">>

RECURSIVE SumSeq(_)
SumSeq(s) == IF s = <<>> THEN 0 ELSE Head(s) + SumSeq(Tail(s))

\* line 208: pd.concat(all_features, ignore_index=True) keeps every row
concat(pages) == SumSeq(pages)

\* the test taken for "some feature was retrieved"
has_pages_SomeFeature(pages) == concat(pages) > 0

\* line 207: a list is truthy when it has an element, whatever the element
has_pages(pages) == Len(pages) > 0

\* the page-size test off by one: a full page ends the loop as well
loop_exits_OnFullPage(resp) ==
    IF resp.status = 200 THEN resp.n <= count ELSE TRUE

\* lines 186-205: the loop is left after this response
loop_exits(resp) ==
    IF resp.status = 200 THEN resp.n < count ELSE TRUE

\* a failed page discarding the pages collected before it
collect_DropOnError(pages, resp) ==
    IF resp.status = 200 THEN Append(pages, resp.n) ELSE <<>>

\* lines 186-196: pages collected after this response
collect(pages, resp) ==
    IF resp.status = 200 THEN Append(pages, resp.n) ELSE pages

\* the start index advanced by one feature instead of one page
next_start_index_ByOne(start) == start + 1

\* line 201
next_start_index(start) == start + count

\* lines 229-233: the GetMap URL, by its parts
wms_url_of(url, layer, box) ==
    [url |-> url, service |-> "WMS", request |-> "GetMap", layers |-> layer,
     bbox |-> box, width |-> 500, height |-> 500, srs |-> "EPSG:4326",
     format |-> "image/png"]

\* ------------------------------------------------------------- the state
VARIABLES
    datasets,             \* the Dataset records, in configuration order
    bbox,                 \* the caller's extent, EPSG:4326
    endless,              \* the server of the current WFS layer never sends
                          \* a short page or an error
    dataset_layers,       \* map.py: dataset name -> layer names
    selected_datasets,    \* names chosen by the user
    pc,                   \* position of the caller / of fetch_geodata
    di,                   \* index of `dataset` in the for loop of line 152
    li,                   \* index of `layer` in the for loop of line 164
    supported_crs,        \* line 155
    to_epsg,              \* line 158
    minx_miny_maxx_maxy,  \* lines 149 and 162: the working extent
    all_features,         \* line 166: sizes of the pages collected
    start_index,          \* line 167
    response,             \* line 184: the last HTTP response received
    full_gdf,             \* lines 208-214: merged and cleaned collection
    results,              \* line 150: the ResultSet
    files,                \* the files written: file name -> rows
    exc,                  \* the exception that left fetch_geodata, if any
    lastCap,              \* observer: the capability call made by the last step
    reqs,                 \* observer: GetFeature requests of the current layer
    answers,              \* observer: what the server answered to each of them
    httpLog,              \* observer: HTTP requests issued by fetch_geodata
    transformCalls,       \* observer: transform_bbox calls for this dataset
    firstPage             \* observer: layer name -> first-page outcomes

vars == <<datasets, bbox, endless, dataset_layers, selected_datasets, pc, di,
          li, supported_crs, to_epsg, minx_miny_maxx_maxy, all_features,
          start_index, response, full_gdf, results, files, exc, lastCap,
          reqs, answers, httpLog, transformCalls, firstPage>>

fetchLocals == <<supported_crs, to_epsg, minx_miny_maxx_maxy, all_features,
                 start_index, response, full_gdf>>

Names == {DatasetNames[i] : i \in 1..NumDatasets}
UrlOf(name) == <<"https", name>>
EmptyMap == [x \in {} |-> 0]
NoResponse == [kind |-> "unbound", status |-> 0, n |-> 0]
NoFrame == [merged |-> -1, rows |-> -1]
NoCall == [fn |-> "none"]

dataset == datasets[di]
layers == dataset_layers[dataset.name]
layer == layers[li]
preferred_crs == Urn(to_epsg)

Init ==
    /\ \E types \in [1..NumDatasets -> ServiceTypes] :
          datasets = [i \in 1..NumDatasets |->
                        [name |-> DatasetNames[i], url |-> UrlOf(DatasetNames[i]),
                         type |-> types[i]]]
    /\ bbox \in BBoxes
    /\ endless = FALSE
    /\ dataset_layers = EmptyMap
    /\ selected_datasets = {}
    /\ pc = "caps"
    /\ di = 1
    /\ li = 1
    /\ supported_crs = {}
    /\ to_epsg = 0
    /\ minx_miny_maxx_maxy = <<0, 0, 0, 0>>
    /\ all_features = <<>>
    /\ start_index = 0
    /\ response = NoResponse
    /\ full_gdf = NoFrame
    /\ results = EmptyMap
    /\ files = EmptyMap
    /\ exc = "none"
    /\ lastCap = NoCall
    /\ reqs = <<>>
    /\ answers = <<>>
    /\ httpLog = {}
    /\ transformCalls = 0
    /\ firstPage = EmptyMap

\* ----------------------------------------------------------- the caller
\* map.py get_all_dataset_layers: one get_capabilities_layers call per
\* configured dataset, in order
GetAllDatasetLayers ==
    /\ pc = "caps"
    /\ \E outcome \in CapOutcomes :
         LET ds == datasets[Cardinality(DOMAIN dataset_layers) + 1]
             r == get_capabilities_layers(outcome, ds.type)
         IN /\ lastCap' = [fn |-> "get_capabilities_layers", outcome |-> outcome,
                           result |-> r]
            /\ IF r.raised
               THEN /\ pc' = "raised"
                    /\ exc' = "capabilities"
                    /\ UNCHANGED dataset_layers
               ELSE /\ dataset_layers' = (ds.name :> r.value) @@ dataset_layers
                    /\ pc' = IF Cardinality(DOMAIN dataset_layers) + 1 = NumDatasets
                             THEN "call" ELSE "caps"
                    /\ UNCHANGED exc
    /\ UNCHANGED <<datasets, bbox, endless, selected_datasets, di, li,
                   fetchLocals, results, files, reqs, answers, httpLog, transformCalls,
                   firstPage>>

\* map.py: the Fetch Data button calls fetch_geodata with a non-empty
\* selection; lines 149-150 of fetch_geodata
FetchCall ==
    /\ pc = "call"
    /\ \E sel \in (SUBSET Names) \ {{}} : selected_datasets' = sel
    /\ minx_miny_maxx_maxy' = bbox
    /\ results' = EmptyMap
    /\ di' = 1
    /\ pc' = "dataset"
    /\ lastCap' = NoCall
    /\ UNCHANGED <<datasets, bbox, endless, dataset_layers, li, supported_crs,
                   to_epsg, all_features, start_index, response, full_gdf,
                   files, exc, reqs, answers, httpLog, transformCalls, firstPage>>

\* ------------------------------------------------------- fetch_geodata
\* line 239
Return ==
    /\ pc = "dataset"
    /\ di > Len(datasets)
    /\ pc' = "returned"
    /\ lastCap' = NoCall
    /\ UNCHANGED <<datasets, bbox, endless, dataset_layers, selected_datasets,
                   di, li, fetchLocals, results, files, exc, reqs, answers,
                   httpLog, transformCalls, firstPage>>

\* line 153, condition false
SkipDataset ==
    /\ pc = "dataset"
    /\ di <= Len(datasets)
    /\ dataset.name \notin selected_datasets
    /\ di' = di + 1
    /\ lastCap' = NoCall
    /\ UNCHANGED <<datasets, bbox, endless, dataset_layers, selected_datasets,
                   pc, li, fetchLocals, results, files, exc, reqs, answers,
                   httpLog, transformCalls, firstPage>>

\* lines 153-162: capability query, CRS choice, reprojection of the extent
BeginDataset ==
    /\ pc = "dataset"
    /\ di <= Len(datasets)
    /\ dataset.name \in selected_datasets
    /\ \E outcome \in CapOutcomes :
         LET r == get_supported_crs(outcome)
             to == select_to_epsg(r.value)
         IN /\ lastCap' = [fn |-> "get_supported_crs", outcome |-> outcome,
                           result |-> r]
            /\ httpLog' = httpLog \cup
                  {[dataset |-> dataset.name, request |-> "GetCapabilities"]}
            /\ IF r.raised
               THEN /\ pc' = "raised"
                    /\ exc' = "capabilities"
                    /\ UNCHANGED <<supported_crs, to_epsg, minx_miny_maxx_maxy,
                                   transformCalls, li>>
               ELSE /\ supported_crs' = r.value
                    /\ to_epsg' = to
                    /\ IF to # from_epsg
                       THEN /\ minx_miny_maxx_maxy' = transform_bbox(bbox, from_epsg, to)
                            /\ transformCalls' = 1
                       ELSE /\ UNCHANGED minx_miny_maxx_maxy
                            /\ transformCalls' = 0
                    /\ li' = 1
                    /\ pc' = "layer"
                    /\ UNCHANGED exc
    /\ UNCHANGED <<datasets, bbox, endless, dataset_layers, selected_datasets,
                   di, all_features, start_index, response, full_gdf, results,
                   files, reqs, answers, firstPage>>

\* line 164 exhausted: back to the for loop of line 152
EndDataset ==
    /\ pc = "layer"
    /\ li > Len(layers)
    /\ di' = di + 1
    /\ pc' = "dataset"
    /\ lastCap' = NoCall
    /\ UNCHANGED <<datasets, bbox, endless, dataset_layers, selected_datasets,
                   li, fetchLocals, results, files, exc, reqs, answers,
                   httpLog, transformCalls, firstPage>>

\* lines 165-168
BeginWfsLayer ==
    /\ pc = "layer"
    /\ li <= Len(layers)
    /\ dataset.type = "WFS"
    /\ all_features' = <<>>
    /\ start_index' = 0
    /\ reqs' = <<>>
    /\ answers' = <<>>
    /\ endless' \in BOOLEAN
    /\ pc' = "request"
    /\ lastCap' = NoCall
    /\ UNCHANGED <<datasets, bbox, dataset_layers, selected_datasets,
                   di, li, supported_crs, to_epsg, minx_miny_maxx_maxy,
                   response, full_gdf, results, files, exc, httpLog,
                   transformCalls, firstPage>>

\* what the WFS server of `url` may answer to the next page request
FeatureAnswers(pages) ==
    IF endless
    THEN {[kind |-> "http", status |-> 200, n |-> count]}
    ELSE [kind : TransportFailures, status : {0}, n : {0}]
         \cup [kind : {"http"}, status : {200}, n : ShortSizes]
         \cup [kind : {"http"}, status : FeatureErrorStatuses, n : {0}]
         \cup (IF Len(pages) < MaxPages
               THEN {[kind |-> "http", status |-> 200, n |-> count]} ELSE {})

Seen(name, status) ==
    (name :> ((IF name \in DOMAIN firstPage THEN firstPage[name] ELSE {})
              \cup {status})) @@ firstPage

\* lines 170-205: one iteration of the pagination loop
GetFeaturePage ==
    /\ pc = "request"
    /\ Len(reqs) <= MaxPages
    /\ \E answer \in FeatureAnswers(all_features) :
         /\ reqs' = Append(reqs,
                [TYPENAMES |-> layer, SRSNAME |-> preferred_crs,
                 BBOX |-> <<minx_miny_maxx_maxy, preferred_crs>>,
                 COUNT |-> count, STARTINDEX |-> start_index])
         /\ answers' = Append(answers, answer)
         /\ httpLog' = httpLog \cup
                {[dataset |-> dataset.name, request |-> "GetFeature"]}
         /\ IF answer.kind # "http"
            THEN /\ pc' = "raised"
                 /\ exc' = answer.kind
                 /\ UNCHANGED <<response, all_features, start_index, firstPage>>
            ELSE /\ response' = answer
                 /\ all_features' = collect(all_features, answer)
                 /\ firstPage' = IF reqs = <<>> THEN Seen(layer, answer.status)
                                 ELSE firstPage
                 /\ IF loop_exits(answer)
                    THEN pc' = "merge" /\ UNCHANGED start_index
                    ELSE pc' = "request"
                         /\ start_index' = next_start_index(start_index)
                 /\ UNCHANGED exc
    /\ lastCap' = NoCall
    /\ UNCHANGED <<datasets, bbox, endless, dataset_layers, selected_datasets,
                   di, li, supported_crs, to_epsg, minx_miny_maxx_maxy,
                   full_gdf, results, files, transformCalls>>

\* lines 207-226: merge, clean, persist, register
MergeAndSave ==
    /\ pc = "merge"
    /\ has_pages(all_features)
    /\ \E invalid \in InvalidRows :
         /\ invalid <= concat(all_features)
         /\ full_gdf' = [merged |-> concat(all_features),
                         rows |-> concat(all_features) - invalid]
    /\ files' = (filename_of(layer) :> full_gdf'.rows) @@ files
    /\ results' = (layer :> [type |-> "WFS", geojson |-> full_gdf'.rows,
                             filename |-> filename_of(layer)]) @@ results
    /\ li' = li + 1
    /\ pc' = "layer"
    /\ lastCap' = NoCall
    /\ UNCHANGED <<datasets, bbox, endless, dataset_layers, selected_datasets,
                   di, supported_crs, to_epsg, minx_miny_maxx_maxy,
                   all_features, start_index, response, exc, reqs, answers,
                   httpLog, transformCalls, firstPage>>

\* line 207, condition false: nothing is written for this layer
NothingToSave ==
    /\ pc = "merge"
    /\ ~has_pages(all_features)
    /\ li' = li + 1
    /\ pc' = "layer"
    /\ lastCap' = NoCall
    /\ UNCHANGED <<datasets, bbox, endless, dataset_layers, selected_datasets,
                   di, fetchLocals, results, files, exc, reqs, answers,
                   httpLog, transformCalls, firstPage>>

\* lines 228-237
WmsLayer ==
    /\ pc = "layer"
    /\ li <= Len(layers)
    /\ dataset.type = "WMS"
    /\ results' = (layer :> [type |-> "WMS",
                             url |-> wms_url_of(dataset.url, layer,
                                                minx_miny_maxx_maxy)]) @@ results
    /\ li' = li + 1
    /\ lastCap' = NoCall
    /\ UNCHANGED <<datasets, bbox, endless, dataset_layers, selected_datasets,
                   pc, di, fetchLocals, files, exc, reqs, answers, httpLog,
                   transformCalls, firstPage>>

Next ==
    \/ GetAllDatasetLayers
    \/ FetchCall
    \/ Return
    \/ SkipDataset
    \/ BeginDataset
    \/ EndDataset
    \/ BeginWfsLayer
    \/ GetFeaturePage
    \/ MergeAndSave
    \/ NothingToSave
    \/ WmsLayer

Spec == Init /\ [][Next]_vars

\* the interpreter keeps running the call: a step that can be taken is taken
FairSpec == Spec /\ WF_vars(Next)

\* ------------------------------------------------------------ the claims
Last(q) == q[Len(q)]
FullPage(a) == a.kind = "http" /\ a.status = 200 /\ a.n = count
ShortPage(a) == a.kind = "http" /\ a.status = 200 /\ a.n < count
ErrorPage(a) == a.kind = "http" /\ a.status # 200

InFetch == pc \in {"dataset", "layer", "request", "merge", "returned", "raised"}

\* the WFS layer layers[li - 1] of the current dataset has just been completed
LayerDone == pc = "layer" /\ li > 1 /\ dataset.type = "WFS"
doneLayer == layers[li - 1]

\* C1: every GetFeature request of a dataset carries the extent derived from
\* the caller's bbox alone: its reprojection when the working CRS is 28992,
\* the bbox itself when the working CRS is 4326, whatever came before.
C1_WorkingBoxFromOriginal ==
    pc \in {"request", "merge"} =>
        \A i \in DOMAIN reqs :
            reqs[i].BBOX[1] = IF to_epsg = RD_EPSG
                              THEN transform_bbox(bbox, from_epsg, RD_EPSG)
                              ELSE bbox

\* C2: every GetMap URL registered in the ResultSet carries the caller's
\* original EPSG:4326 extent.
C2_WmsUrlOriginalBox ==
    InFetch =>
        \A n \in DOMAIN results :
            results[n].type = "WMS" => results[n].url.bbox = bbox

\* C3: a layer answered with N full pages and then a page of k < 1000
\* features was asked exactly N+1 times, at start indices 0, 1000, ...,
\* 1000*N in that order, and 1000*N + k features were merged.
C3_PaginationCount ==
    (/\ LayerDone
     /\ answers # <<>>
     /\ ShortPage(Last(answers))
     /\ \A i \in 1..(Len(answers) - 1) : FullPage(answers[i]))
    => LET N == Len(answers) - 1
           k == Last(answers).n
       IN /\ Len(reqs) = N + 1
          /\ \A i \in 1..(N + 1) :
                /\ reqs[i].STARTINDEX = 1000 * (i - 1)
                /\ reqs[i].COUNT = 1000
                /\ reqs[i].TYPENAMES = doneLayer
          /\ full_gdf.merged = 1000 * N + k

C3_Witness ==
    /\ LayerDone
    /\ Len(answers) = 3
    /\ FullPage(answers[1]) /\ FullPage(answers[2])
    /\ ShortPage(answers[3]) /\ answers[3].n = 7
    /\ full_gdf.merged = 2007

C5_TransportFailureContained ==
    (answers # <<>> /\ Last(answers).kind \in TransportFailures)
        => pc # "raised"

\* C6: for a GetCapabilities outcome that is a timeout, a connection error,
\* a non-200 status, a non-XML body or malformed XML, listLayers returns the
\* empty sequence and supportedCRS the empty set, and neither raises.
FailedCapability(o) ==
    \/ o.kind \in TransportFailures
    \/ o.status # 200
    \/ o.body.form # "xml"

C6_CapabilitiesFailClosed ==
    (lastCap.fn # "none" /\ FailedCapability(lastCap.outcome))
    => /\ ~lastCap.result.raised
       /\ lastCap.fn = "get_capabilities_layers" => lastCap.result.value = <<>>
       /\ lastCap.fn = "get_supported_crs" => lastCap.result.value = {}

\* C7: within a selected dataset the working CRS is 28992 and transform_bbox
\* was called exactly once if the supported-CRS set contains the 28992 URN;
\* otherwise the working CRS is 4326 and transform_bbox was not called.
C7_CrsSelection ==
    pc \in {"layer", "request", "merge"} =>
        IF "urn:ogc:def:crs:EPSG::28992" \in supported_crs
        THEN to_epsg = 28992 /\ transformCalls = 1
        ELSE to_epsg = 4326 /\ transformCalls = 0

C7_Witness ==
    /\ pc = "layer"
    /\ "urn:ogc:def:crs:EPSG::28992" \in supported_crs
    /\ transformCalls = 1
    /\ minx_miny_maxx_maxy # bbox

\* C8: a fetch whose selected datasets are all of type WMS issues no HTTP
\* request, and each WMS layer's result holds only the constructed URL.
C8_WmsNoNetwork ==
    (/\ InFetch
     /\ \A i \in DOMAIN datasets :
           datasets[i].name \in selected_datasets => datasets[i].type = "WMS")
    => /\ httpLog = {}
       /\ \A n \in DOMAIN results : DOMAIN results[n] = {"type", "url"}

\* the loop is left only after a short page or a non-200 status
C9_LoopExit ==
    [][(pc = "request" /\ pc' = "merge")
         => (ErrorPage(Last(answers')) \/ ShortPage(Last(answers')))]_vars
\* a full page is always followed by the request for the next page
C9_NoCap ==
    [][(pc = "request" /\ answers' # answers /\ FullPage(Last(answers')))
         => (pc' = "request" /\ start_index' = start_index + 1000)]_vars
\* while the server only sends full pages, fetch is in the loop
C9_EndlessNeverReturns == [](endless => pc = "request")
\* a call whose servers are not endless ends: it returns, or an exception
\* of a page request ends it
C9_Terminates ==
    (pc = "dataset" /\ di = 1) ~> (pc \in {"returned", "raised"} \/ endless)

\* C9: the pagination loop is left only after a page of fewer than 1000
\* features or a non-200 status, and a full page is always followed by the
\* request for the next one (there is no cap): while the server keeps
\* answering full pages fetch stays in the loop and does not return, and when
\* no server does so the call ends.
C9_UnboundedPagination ==
    C9_LoopExit /\ C9_NoCap /\ C9_EndlessNeverReturns /\ C9_Terminates

C9_Witness ==
    /\ pc = "request"
    /\ endless
    /\ Len(answers) = MaxPages + 1
    /\ \A i \in DOMAIN answers : FullPage(answers[i])
    /\ start_index = 1000 * (MaxPages + 1)

\* C10 as stated: after fetch returns, a WFS layer of a selected dataset has
\* an entry in the ResultSet and a file iff its first page returned 200.
C10_EntryIffFirstPageOk ==
    pc = "returned" =>
        \A n \in DOMAIN firstPage : \A st \in firstPage[n] :
            (n \in DOMAIN results /\ filename_of(n) \in DOMAIN files)
                <=> st = 200

\* the layers fetch goes through: dataset index and position in its list
Processed ==
    UNION {{<<d, i>> : i \in DOMAIN dataset_layers[datasets[d].name]} :
           d \in {e \in DOMAIN datasets : datasets[e].name \in selected_datasets}}
NameAt(o) == dataset_layers[datasets[o[1]].name][o[2]]
\* no other processed layer has this name, and no other processed WFS layer
\* has this file name
Unshared(n) ==
    /\ Cardinality({o \in Processed : NameAt(o) = n}) = 1
    /\ Cardinality({o \in Processed :
            /\ datasets[o[1]].type = "WFS"
            /\ filename_of(NameAt(o)) = filename_of(n)}) = 1

\* at return, entry and file iff the first page was a 200, for unshared names
C10_UnsharedInv ==
    pc = "returned" =>
        \A n \in DOMAIN firstPage : Unshared(n) =>
            \A st \in firstPage[n] :
                (/\ n \in DOMAIN results
                 /\ results[n].type = "WFS"
                 /\ filename_of(n) \in DOMAIN files)
                    <=> st = 200

\* C10 as amended: after fetch returns, a WFS layer whose name no other
\* processed layer carries and whose file name no other processed WFS layer
\* derives has a WFS entry and a file iff its first page returned 200; and
\* finishing a layer whose first page failed changes neither the ResultSet
\* nor the files.
C10_UnsharedEntryIffFirstPageOk ==
    /\ []C10_UnsharedInv
    /\ [][(pc = "merge" /\ ErrorPage(answers[1]))
            => (results' = results /\ files' = files)]_vars

C10_Witness ==
    /\ pc = "returned"
    /\ LayerA \in DOMAIN firstPage /\ LayerB \in DOMAIN firstPage
    /\ Unshared(LayerA) /\ Unshared(LayerB)
    /\ firstPage[LayerA] = {500}
    /\ firstPage[LayerB] = {200}
    /\ LayerA \notin DOMAIN results
    /\ LayerB \in DOMAIN results
    /\ results[LayerB].geojson = 0

====
